---- MODULE Spec2Model ----
(***************************************************************************)
(* Model of the survey administration program (database.py and the        *)
(* Streamlit views that call it).                                          *)
(*                                                                         *)
(* The state is the content of the PostgreSQL tables the program reads    *)
(* and writes, one variable per table, each a set of rows (records).      *)
(* Only the columns that some guard, join or statement of the modelled    *)
(* code reads are kept: description, password_hash, username, created_at  *)
(* and the login/activity timestamps are written but never read by the    *)
(* modelled operations.  submission_date is kept as its calendar day.     *)
(*                                                                         *)
(* The table definitions are not part of the sources, so the tables carry *)
(* no constraint of their own: every check is one the program performs.   *)
(* Ids are drawn from per-table sequences (the INSERTs never supply one). *)
(*                                                                         *)
(* admin_views.py refers to get_db_connection through the module name     *)
(* `database`; the handlers are modelled with that name bound to          *)
(* database.py, as employee_views.py:16 and governorate_admin_views.py:18 *)
(* bind it.  Queries are taken to reach the server: the only failures     *)
(* modelled are the ones the code itself raises.                          *)
(***************************************************************************)
EXTENDS Integers, Sequences, FiniteSets, TLC

\* ------------------------------------------------------------------ bounds
MaxGov == 3          \* governorate ids handed out
MaxHA == 2           \* health administration ids handed out
MaxUser == 5         \* user ids handed out
MaxSurvey == 2       \* survey ids handed out
MaxField == 3        \* survey field ids handed out
MaxResponse == 3     \* response ids handed out
MaxDay == 2          \* calendar days the clock runs through
MaxLen == 2          \* length of a submitted field list
NumSessions == 2     \* browser sessions submitting concurrently

\* SQL NULL / Python None for an id column (ids start at 1)
NULL == 0

GovNames == {"", "g1", "g2"}
HANames == {"", "h1", "h2"}
SurveyNames == {"s1", "s2"}
Roles == {"admin", "governorate_admin", "employee"}

VARIABLES
    Governorates,           \* rows [governorate_id, governorate_name]
    HealthAdministrations,  \* rows [admin_id, admin_name, governorate_id]
    Users,                  \* rows [user_id, role, assigned_region]
    Surveys,                \* rows [survey_id, survey_name, is_active]
    Survey_Fields,          \* rows [field_id, survey_id, field_label, field_type,
                            \*       field_options, is_required, field_order]
    SurveyGovernorate,      \* rows [survey_id, governorate_id]
    Responses,              \* rows [response_id, survey_id, user_id, region_id,
                            \*       is_completed, day]
    Response_Details,       \* rows [detail_id, response_id, field_id, answer_value]
    UserSurveys,            \* rows [user_id, survey_id]
    GovernorateAdmins,      \* rows [user_id, governorate_id]
    AuditLog,               \* rows [log_id, user_id, action_type, table_name,
                            \*       record_id, old_value, new_value]
    seq,                    \* next value of each table's id sequence
    today,                  \* CURRENT_DATE
    session,                \* per browser session: the submission in progress
    last                    \* the last call: its arguments and what it returned

vars == <<Governorates, HealthAdministrations, Users, Surveys, Survey_Fields,
          SurveyGovernorate, Responses, Response_Details, UserSurveys, GovernorateAdmins,
          AuditLog, seq, today, session, last>>

orgTables == <<Governorates, HealthAdministrations, Users>>
surveyTables == <<Surveys, Survey_Fields, SurveyGovernorate>>
responseTables == <<Responses, Response_Details>>
accessTables == <<UserSurveys, GovernorateAdmins, AuditLog>>

Sessions == 1..NumSessions

\* ------------------------------------------------------- stored field options
\* field_options is a text column: NULL, or the JSON text json.dumps produced.
SQL_NULL == [null |-> TRUE, json |-> <<>>]
json_dumps(list) == [null |-> FALSE, json |-> list]
json_loads(text) == text.json

\* ------------------------------------------------------------------- Init
\* The database the program is deployed against.  The program has no way to
\* create its first administrator, so users, the organisation and the rows of
\* earlier use are there before the first request.
IdleSession ==
    [pc |-> "idle", user_id |-> NULL, region_id |-> NULL, survey_id |-> NULL,
     is_completed |-> FALSE]

Init ==
    /\ Governorates = {[governorate_id |-> 1, governorate_name |-> "g1"],
                       [governorate_id |-> 2, governorate_name |-> "g2"]}
    /\ HealthAdministrations = {[admin_id |-> 1, admin_name |-> "h1", governorate_id |-> 1]}
    /\ Users = {[user_id |-> 1, role |-> "admin", assigned_region |-> NULL],
                [user_id |-> 2, role |-> "employee", assigned_region |-> 1],
                [user_id |-> 3, role |-> "employee", assigned_region |-> 1],
                [user_id |-> 4, role |-> "governorate_admin", assigned_region |-> NULL]}
    /\ Surveys = {[survey_id |-> 1, survey_name |-> "s1", is_active |-> TRUE]}
    /\ Survey_Fields =
         {[field_id |-> 1, survey_id |-> 1, field_label |-> "A", field_type |-> "text",
           field_options |-> json_dumps(<<>>), is_required |-> TRUE, field_order |-> 0],
          [field_id |-> 2, survey_id |-> 1, field_label |-> "B", field_type |-> "dropdown",
           field_options |-> json_dumps(<<"x">>), is_required |-> FALSE, field_order |-> 1]}
    /\ SurveyGovernorate = {[survey_id |-> 1, governorate_id |-> 1]}
    /\ Responses = {[response_id |-> 1, survey_id |-> 1, user_id |-> 2, region_id |-> 1,
                     is_completed |-> TRUE, day |-> 0]}
    /\ Response_Details =
         {[detail_id |-> 1, response_id |-> 1, field_id |-> 1, answer_value |-> "v"]}
    /\ UserSurveys = {}
    /\ GovernorateAdmins = {[user_id |-> 4, governorate_id |-> 1]}
    /\ AuditLog = {}
    /\ seq = [Governorates |-> 3, HealthAdministrations |-> 2, Users |-> 5, Surveys |-> 2,
              Survey_Fields |-> 3, Responses |-> 2, Response_Details |-> 2, AuditLog |-> 1]
    /\ today = 1
    /\ session = [p \in Sessions |-> IdleSession]
    /\ last = [op |-> "none"]

\* ------------------------------------------------------ organisation store
OrgCall(op, id, name, gov, result) ==
    [op |-> op, id |-> id, name |-> name, gov |-> gov, result |-> result]

\* database.add_governorate: INSERT INTO Governorates
add_governorate(governorate_name) ==
    /\ seq.Governorates <= MaxGov
    /\ Governorates' = Governorates \cup
          {[governorate_id |-> seq.Governorates, governorate_name |-> governorate_name]}
    /\ seq' = [seq EXCEPT !.Governorates = @ + 1]

\* database.update_governorate: UPDATE Governorates ... WHERE governorate_id
update_governorate(governorate_id, new_name) ==
    Governorates' = {IF g.governorate_id = governorate_id
                       THEN [g EXCEPT !.governorate_name = new_name] ELSE g
                     : g \in Governorates}

\* SELECT governorate_id FROM Governorates WHERE governorate_name = %s
existing_governorate_name(name) ==
    \E g \in Governorates : g.governorate_name = name

\* ... WHERE governorate_name = %s AND governorate_id != %s
ExistingOtherGovernorateNone(new_name, gov_id) == FALSE
existing_other_governorate(new_name, gov_id) ==
    \E g \in Governorates : g.governorate_name = new_name /\ g.governorate_id # gov_id

\* manage_governorates, the "add governorate" form
add_governorate_form(governorate_name) ==
    /\ IF governorate_name = ""
         THEN /\ UNCHANGED <<Governorates, seq>>
              /\ last' = OrgCall("add_governorate", NULL, governorate_name, NULL, "empty")
         ELSE IF existing_governorate_name(governorate_name)
         THEN /\ UNCHANGED <<Governorates, seq>>
              /\ last' = OrgCall("add_governorate", NULL, governorate_name, NULL, "conflict")
         ELSE /\ add_governorate(governorate_name)
              /\ last' = OrgCall("add_governorate", seq.Governorates, governorate_name,
                                 NULL, "ok")
    /\ UNCHANGED <<HealthAdministrations, Users, surveyTables, responseTables, accessTables, today, session>>

\* edit_governorate, the "save changes" button
edit_governorate(gov_id, new_name) ==
    /\ \E g \in Governorates : g.governorate_id = gov_id
    /\ IF existing_other_governorate(new_name, gov_id)
         THEN /\ UNCHANGED Governorates
              /\ last' = OrgCall("update_governorate", gov_id, new_name, NULL, "conflict")
         ELSE /\ update_governorate(gov_id, new_name)
              /\ last' = OrgCall("update_governorate", gov_id, new_name, NULL, "ok")
    /\ UNCHANGED <<HealthAdministrations, Users, surveyTables, responseTables, seq, accessTables, today, session>>

\* SELECT admin_id FROM HealthAdministrations WHERE governorate_id = %s
HasRegionsUnchecked(governorate_id) == FALSE
has_regions(governorate_id) ==
    \E ha \in HealthAdministrations : ha.governorate_id = governorate_id

\* database.delete_governorate
delete_governorate(governorate_id) ==
    /\ \E g \in Governorates : g.governorate_id = governorate_id
    /\ IF has_regions(governorate_id)
         THEN /\ UNCHANGED Governorates
              /\ last' = OrgCall("delete_governorate", governorate_id, "", NULL, "has_children")
         ELSE /\ Governorates' = {g \in Governorates : g.governorate_id # governorate_id}
              /\ last' = OrgCall("delete_governorate", governorate_id, "", NULL, "ok")
    /\ UNCHANGED <<HealthAdministrations, Users, surveyTables, responseTables, seq, accessTables, today, session>>

\* SELECT admin_id FROM HealthAdministrations WHERE admin_name = %s AND governorate_id = %s
existing_health_admin(admin_name, governorate_id) ==
    \E ha \in HealthAdministrations :
        ha.admin_name = admin_name /\ ha.governorate_id = governorate_id

\* database.add_health_admin
add_health_admin(admin_name, governorate_id) ==
    IF existing_health_admin(admin_name, governorate_id)
      THEN /\ UNCHANGED <<HealthAdministrations, seq>>
           /\ last' = OrgCall("add_health_admin", NULL, admin_name, governorate_id, "conflict")
      ELSE /\ seq.HealthAdministrations <= MaxHA
           /\ HealthAdministrations' = HealthAdministrations \cup
                 {[admin_id |-> seq.HealthAdministrations, admin_name |-> admin_name,
                   governorate_id |-> governorate_id]}
           /\ seq' = [seq EXCEPT !.HealthAdministrations = @ + 1]
           /\ last' = OrgCall("add_health_admin", seq.HealthAdministrations, admin_name,
                              governorate_id, "ok")

\* manage_regions, the "add health administration" form
add_health_admin_form(admin_name, governorate_id) ==
    /\ \E g \in Governorates : g.governorate_id = governorate_id
    /\ IF admin_name = ""
         THEN /\ UNCHANGED <<HealthAdministrations, seq>>
              /\ last' = OrgCall("add_health_admin", NULL, admin_name, governorate_id, "empty")
         ELSE IF existing_health_admin(admin_name, governorate_id)
         THEN /\ UNCHANGED <<HealthAdministrations, seq>>
              /\ last' = OrgCall("add_health_admin", NULL, admin_name, governorate_id, "conflict")
         ELSE add_health_admin(admin_name, governorate_id)
    /\ UNCHANGED <<Governorates, Users, surveyTables, responseTables, accessTables, today, session>>

\* database.update_health_admin: UPDATE HealthAdministrations ... WHERE admin_id
update_health_admin(admin_id, new_name, new_gov_id) ==
    HealthAdministrations' =
        {IF ha.admin_id = admin_id
           THEN [ha EXCEPT !.admin_name = new_name, !.governorate_id = new_gov_id] ELSE ha
         : ha \in HealthAdministrations}

\* ... WHERE admin_name = %s AND governorate_id = %s AND admin_id != %s
ExistingOtherHealthAdminOldGov(new_name, new_gov, admin_id) ==
    \E ha \in HealthAdministrations, me \in HealthAdministrations :
        /\ me.admin_id = admin_id
        /\ ha.admin_name = new_name
        /\ ha.governorate_id = me.governorate_id
        /\ ha.admin_id # admin_id
existing_other_health_admin(new_name, new_gov, admin_id) ==
    \E ha \in HealthAdministrations :
        ha.admin_name = new_name /\ ha.governorate_id = new_gov /\ ha.admin_id # admin_id

\* edit_health_admin, the "save changes" button
edit_health_admin(admin_id, new_name, new_gov) ==
    /\ \E ha \in HealthAdministrations : ha.admin_id = admin_id
    /\ \E g \in Governorates : g.governorate_id = new_gov
    /\ IF existing_other_health_admin(new_name, new_gov, admin_id)
         THEN /\ UNCHANGED HealthAdministrations
              /\ last' = OrgCall("update_health_admin", admin_id, new_name, new_gov, "conflict")
         ELSE /\ update_health_admin(admin_id, new_name, new_gov)
              /\ last' = OrgCall("update_health_admin", admin_id, new_name, new_gov, "ok")
    /\ UNCHANGED <<Governorates, Users, surveyTables, responseTables, seq, accessTables, today, session>>

\* SELECT user_id FROM Users WHERE assigned_region = %s
HasUsersByUserId(admin_id) ==
    \E u \in Users : u.user_id = admin_id
has_users(admin_id) ==
    \E u \in Users : u.assigned_region = admin_id

\* database.delete_health_admin
delete_health_admin(admin_id) ==
    /\ \E ha \in HealthAdministrations : ha.admin_id = admin_id
    /\ IF has_users(admin_id)
         THEN /\ UNCHANGED HealthAdministrations
              /\ last' = OrgCall("delete_health_admin", admin_id, "", NULL, "has_children")
         ELSE /\ HealthAdministrations' =
                    {ha \in HealthAdministrations : ha.admin_id # admin_id}
              /\ last' = OrgCall("delete_health_admin", admin_id, "", NULL, "ok")
    /\ UNCHANGED <<Governorates, Users, surveyTables, responseTables, seq, accessTables, today, session>>

\* database.add_user: INSERT INTO Users
add_user(role, region_id) ==
    /\ seq.Users <= MaxUser
    /\ Users' = Users \cup
          {[user_id |-> seq.Users, role |-> role, assigned_region |-> region_id]}
    /\ seq' = [seq EXCEPT !.Users = @ + 1]

\* database.get_user_by_username.  The text of the query holds two remarks
\* introduced by '#', which PostgreSQL reads as an operator: the statement does
\* not parse, execute_query catches the error and returns None, whatever the
\* argument.  (A user is named in the model by its id.)
GetUserByUsernameWorks(users, username) == {u \in users : u.user_id = username}
get_user_by_username(users, username) == {}

\* database.add_governorate_admin: INSERT INTO GovernorateAdmins
add_governorate_admin(rows, user_id, governorate_id) ==
    rows \cup {[user_id |-> user_id, governorate_id |-> governorate_id]}

\* add_user_form, the "save user" button.  selected_admin is one of the health
\* administrations of the governorate chosen in the form, None when it has none.
\* After add_user has committed, the binding and the grants are written only
\* if get_user_by_username hands the new user back.
add_user_form(role, selected_gov, selected_admin) ==
    /\ \E g \in Governorates : g.governorate_id = selected_gov
    /\ \/ /\ selected_admin = NULL
          /\ ~ \E ha \in HealthAdministrations : ha.governorate_id = selected_gov
       \/ \E ha \in HealthAdministrations :
             ha.governorate_id = selected_gov /\ ha.admin_id = selected_admin
    /\ IF role = "employee" /\ selected_admin = NULL
         THEN /\ UNCHANGED <<Users, seq, accessTables>>
              /\ last' = OrgCall("add_user", NULL, role, NULL, "no_region")
         ELSE /\ add_user(role, IF role = "employee" THEN selected_admin ELSE NULL)
              /\ last' = OrgCall("add_user", seq.Users, role, selected_admin, "ok")
              /\ IF get_user_by_username(Users', seq.Users) # {}
                   THEN /\ GovernorateAdmins' =
                              IF role = "governorate_admin"
                                THEN add_governorate_admin(GovernorateAdmins, seq.Users,
                                                           selected_gov)
                                ELSE GovernorateAdmins
                        /\ \E selected_surveys \in SUBSET {sv.survey_id : sv \in Surveys} :
                              UserSurveys' =
                                 IF role # "admin" /\ selected_surveys # {}
                                   THEN {us \in UserSurveys : us.user_id # seq.Users}
                                          \cup {[user_id |-> seq.Users, survey_id |-> sv]
                                                  : sv \in selected_surveys}
                                   ELSE UserSurveys
                        /\ UNCHANGED AuditLog
                   ELSE UNCHANGED accessTables
    /\ UNCHANGED <<Governorates, HealthAdministrations, surveyTables, responseTables,
                   today, session>>

GovIds == 1..MaxGov
HAIds == 1..MaxHA

\* the governorate tab of the admin dashboard
NextGov ==
    \/ \E n \in GovNames : add_governorate_form(n)
    \/ \E g \in GovIds, n \in GovNames : edit_governorate(g, n)
    \/ \E g \in GovIds : delete_governorate(g)

SpecGov == Init /\ [][NextGov]_vars

\* the health administration tab and the add-user form
NextHA ==
    \/ \E n \in HANames, g \in GovIds : add_health_admin_form(n, g)
    \/ \E h \in HAIds, n \in HANames, g \in GovIds : edit_health_admin(h, n, g)
    \/ \E h \in HAIds : delete_health_admin(h)
    \/ \E r \in Roles, g \in GovIds, h \in HAIds \cup {NULL} : add_user_form(r, g, h)

SpecHA == Init /\ [][NextHA]_vars

\* ------------------------------------------------------- employee dashboard
\* Python None as a widget value, and the values `not answer` takes for missing
\* A number_input hands back a float, 0.0 unless the user changes it.
PyNone == "<None>"
PyZero == "<0.0>"
PyOne == "<1.0>"
Falsy(v) == v \in {"", PyNone, PyZero}

\* get_employee_region_info: HealthAdministrations JOIN Governorates
get_employee_region_info(region_id) ==
    {ha \in HealthAdministrations :
        /\ ha.admin_id = region_id
        /\ \E g \in Governorates : g.governorate_id = ha.governorate_id}

\* database.get_allowed_surveys: Users JOIN HealthAdministrations JOIN
\* SurveyGovernorate JOIN Surveys WHERE user_id AND is_active
get_allowed_surveys(user_id) ==
    {sv.survey_id : sv \in
        {sv \in Surveys :
            /\ sv.is_active
            /\ \E u \in Users, ha \in HealthAdministrations, sg \in SurveyGovernorate :
                  /\ u.user_id = user_id
                  /\ u.assigned_region = ha.admin_id
                  /\ ha.governorate_id = sg.governorate_id
                  /\ sg.survey_id = sv.survey_id}}

\* database.get_survey_by_id
get_survey_by_id(survey_id) == {sv \in Surveys : sv.survey_id = survey_id}

\* database.has_completed_survey_today
HasCompletedSurveyEarlier(user_id, survey_id) ==
    \E r \in Responses :
        /\ r.user_id = user_id /\ r.survey_id = survey_id
        /\ r.is_completed /\ r.day < today
has_completed_survey_today(user_id, survey_id) ==
    \E r \in Responses :
        /\ r.user_id = user_id /\ r.survey_id = survey_id
        /\ r.is_completed /\ r.day = today

\* database.get_survey_fields: the rows of the survey ORDER BY field_order.
\* Rows with equal field_order come in either order, so this is the set of
\* the listings the query can return.
get_survey_fields(survey_id) ==
    LET rows == {f \in Survey_Fields : f.survey_id = survey_id}
        n == Cardinality(rows)
    IN {l \in [1..n -> rows] :
           /\ \A i, j \in 1..n : i # j => l[i] # l[j]
           /\ \A i, j \in 1..n : i < j => l[i].field_order <= l[j].field_order}

\* render_field: the values a widget of the field can hand back
WidgetValues(field) ==
    IF field.field_type = "dropdown"
      THEN IF field.field_options.null \/ json_loads(field.field_options) = <<>>
             THEN {PyNone}
             ELSE {json_loads(field.field_options)[i] :
                      i \in 1..Len(json_loads(field.field_options))}
    ELSE IF field.field_type = "number" THEN {PyZero, PyOne}
    ELSE {"", "v"}

\* display_survey_form: answers[field_id] = render_field(...)
FormAnswers(fields) ==
    LET ids == {fields[i].field_id : i \in 1..Len(fields)}
    IN {a \in [ids -> {"", "v", "x", PyNone, PyZero, PyOne}] :
           \A i \in 1..Len(fields) : a[fields[i].field_id] \in WidgetValues(fields[i])}

\* check_required_fields: the labels of the required fields without an answer
RECURSIVE check_required_fields(_, _)
CheckRequiredFieldsNone(fields, answers) == <<>>
check_required_fields(fields, answers) ==
    IF fields = <<>> THEN <<>>
    ELSE LET field == Head(fields)
         IN (IF field.is_required /\ Falsy(answers[field.field_id])
               THEN <<field.field_label>> ELSE <<>>)
            \o check_required_fields(Tail(fields), answers)

\* database.save_response: INSERT INTO Responses ... NOW(), committed.  With
\* commit=True execute_query returns True, so result['response_id'] raises
\* TypeError after the commit: the caller never gets a response id.
SaveResponseOverwrites(survey_id, user_id, region_id, is_completed) ==
    /\ seq.Responses <= MaxResponse
    /\ Responses' =
          {IF r.survey_id = survey_id /\ r.user_id = user_id
             THEN [r EXCEPT !.is_completed = is_completed] ELSE r : r \in Responses}
          \cup {[response_id |-> seq.Responses, survey_id |-> survey_id,
                  user_id |-> user_id, region_id |-> region_id,
                  is_completed |-> is_completed, day |-> today]}
    /\ seq' = [seq EXCEPT !.Responses = @ + 1]
save_response(survey_id, user_id, region_id, is_completed) ==
    /\ seq.Responses <= MaxResponse
    /\ Responses' = Responses \cup
          {[response_id |-> seq.Responses, survey_id |-> survey_id, user_id |-> user_id,
            region_id |-> region_id, is_completed |-> is_completed, day |-> today]}
    /\ seq' = [seq EXCEPT !.Responses = @ + 1]

SubmitCall(user_id, survey_id, is_completed, result, missing, answers) ==
    [op |-> "process_survey_submission", user_id |-> user_id, survey_id |-> survey_id,
     is_completed |-> is_completed, result |-> result, missing |-> missing,
     answers |-> answers]

\* the employee of a session can open the form of the survey
FormShown(user_id, region_id, survey_id) ==
    /\ region_id # NULL
    /\ get_employee_region_info(region_id) # {}
    /\ survey_id \in get_allowed_surveys(user_id)
    /\ get_survey_by_id(survey_id) # {}

\* One press of a form button in a session whose st.session_state holds
\* user_id and region_id, run to its end without another request in between:
\* show_employee_dashboard, display_single_survey, display_survey_form and
\* process_survey_submission.  The region handed down to save_response is
\* region_info['admin_id'], the session's region_id.  save_response_details is
\* never reached: save_response raises and display_single_survey reports the
\* exception.
dashboard_request(user_id, region_id, survey_id, is_completed) ==
    /\ FormShown(user_id, region_id, survey_id)
    /\ IF has_completed_survey_today(user_id, survey_id)
         THEN /\ UNCHANGED <<Responses, seq>>
              /\ last' = SubmitCall(user_id, survey_id, is_completed, "completed_today",
                                    <<>>, <<>>)
         ELSE \E fields \in get_survey_fields(survey_id) :
              \E answers \in FormAnswers(fields) :
                LET missing_fields == check_required_fields(fields, answers)
                IN IF missing_fields # <<>> /\ is_completed
                     THEN /\ UNCHANGED <<Responses, seq>>
                          /\ last' = SubmitCall(user_id, survey_id, is_completed,
                                                "missing_required", missing_fields, answers)
                     ELSE /\ save_response(survey_id, user_id, region_id, is_completed)
                          /\ last' = SubmitCall(user_id, survey_id, is_completed,
                                                "inserted", missing_fields, answers)
    /\ UNCHANGED <<orgTables, surveyTables, Response_Details, accessTables, today, session>>

\* the request of an employee who has just logged in: the session holds the
\* user's persisted health administration
process_survey_submission(user_id, survey_id, is_completed) ==
    \E u \in Users :
      /\ u.user_id = user_id
      /\ u.role = "employee"
      /\ dashboard_request(user_id, u.assigned_region, survey_id, is_completed)

\* midnight
next_day ==
    /\ today < MaxDay
    /\ today' = today + 1
    /\ last' = [op |-> "next_day"]
    /\ UNCHANGED <<orgTables, surveyTables, responseTables, accessTables, seq, session>>

UserIds == 1..MaxUser
SurveyIds == 1..MaxSurvey

NextSubmit ==
    \/ \E u \in UserIds, sv \in SurveyIds, c \in BOOLEAN : process_survey_submission(u, sv, c)
    \/ next_day

SpecSubmit == Init /\ [][NextSubmit]_vars

\* ---- the same button press as the separate requests it sends to the server
\* lines 19-178: the dashboard's reads, the check of line 118 and the
\* required-field check
submit_render(p, user_id, survey_id, is_completed) ==
    \E u \in Users :
      /\ session[p].pc \in {"idle", "inserted", "rejected"}
      /\ u.user_id = user_id
      /\ u.role = "employee"
      /\ FormShown(user_id, u.assigned_region, survey_id)
      /\ IF has_completed_survey_today(user_id, survey_id)
           THEN session' = [session EXCEPT ![p] =
                   [pc |-> "rejected", user_id |-> user_id, region_id |-> u.assigned_region,
                    survey_id |-> survey_id, is_completed |-> is_completed]]
           ELSE \E fields \in get_survey_fields(survey_id) :
                \E answers \in FormAnswers(fields) :
                  session' = [session EXCEPT ![p] =
                     [pc |-> IF check_required_fields(fields, answers) # <<>> /\ is_completed
                               THEN "rejected" ELSE "check",
                      user_id |-> user_id, region_id |-> u.assigned_region,
                      survey_id |-> survey_id, is_completed |-> is_completed]]
      /\ last' = [op |-> "submit_render", session |-> p]
      /\ UNCHANGED <<orgTables, surveyTables, responseTables, seq, accessTables, today>>

\* lines 180-182: has_completed_survey_today in a transaction of its own
submit_check(p) ==
    /\ session[p].pc = "check"
    /\ session' = [session EXCEPT ![p].pc =
          IF /\ session[p].is_completed
             /\ has_completed_survey_today(session[p].user_id, session[p].survey_id)
            THEN "rejected" ELSE "save"]
    /\ last' = [op |-> "submit_check", session |-> p]
    /\ UNCHANGED <<orgTables, surveyTables, responseTables, seq, accessTables, today>>

\* lines 184-189: save_response in a transaction of its own
submit_save(p) ==
    /\ session[p].pc = "save"
    /\ save_response(session[p].survey_id, session[p].user_id, session[p].region_id,
                     session[p].is_completed)
    /\ session' = [session EXCEPT ![p].pc = "inserted"]
    /\ last' = [op |-> "submit_save", session |-> p]
    /\ UNCHANGED <<orgTables, surveyTables, Response_Details, accessTables, today>>

NextRace ==
    \/ \E p \in Sessions, u \in UserIds, sv \in SurveyIds, c \in BOOLEAN :
          submit_render(p, u, sv, c)
    \/ \E p \in Sessions : submit_check(p)
    \/ \E p \in Sessions : submit_save(p)

SpecRace == Init /\ [][NextRace]_vars

\* --------------------------------------------------------- survey schema
\* A field dict of the list handed to update_survey.  has_id says whether the
\* key 'field_id' is present, has_label whether 'field_label' is.
FieldTemplates ==
    <<[field_label |-> "B", field_type |-> "dropdown", field_options |-> <<"x">>,
       is_required |-> FALSE],
      [field_label |-> "A", field_type |-> "text", field_options |-> <<>>,
       is_required |-> TRUE]>>

FieldDict(has_id, field_id, has_label, i) ==
    LET t == FieldTemplates[((i - 1) % Len(FieldTemplates)) + 1]
    IN [has_id |-> has_id, field_id |-> field_id, has_label |-> has_label,
        field_label |-> t.field_label, field_type |-> t.field_type,
        field_options |-> t.field_options, is_required |-> t.is_required]

\* what a position of a submitted list can hold: an existing field by id, a
\* new field, or a dict without the key 'field_label'
FieldSlots ==
    {[kind |-> "id", field_id |-> k] : k \in 1..MaxField}
      \cup {[kind |-> "new", field_id |-> NULL], [kind |-> "no_label", field_id |-> NULL]}

FieldLists ==
    UNION {{[i \in 1..n |->
               FieldDict(slots[i].kind = "id", slots[i].field_id,
                         slots[i].kind # "no_label", i)]
            : slots \in [1..n -> FieldSlots]} : n \in 0..MaxLen}

\* line 260: {f['field_id'] for f in cur.fetchall()}
existing_field_ids(rows, survey_id) ==
    {f.field_id : f \in {f \in rows : f.survey_id = survey_id}}

\* line 262: {f['field_id'] for f in fields if 'field_id' in f}
updated_field_ids(fields) ==
    {fields[i].field_id : i \in {i \in 1..Len(fields) : fields[i].has_id}}

\* line 263: existing_field_ids - updated_field_ids
FieldsToDeleteAll(rows, survey_id, fields) == existing_field_ids(rows, survey_id)
fields_to_delete(rows, survey_id, fields) ==
    existing_field_ids(rows, survey_id) \ updated_field_ids(fields)

\* line 272: json.dumps(field.get('field_options', [])) if field.get('field_options') else None
stored_field_options(field) ==
    IF field.field_options # <<>> THEN json_dumps(field.field_options) ELSE SQL_NULL

\* lines 275-287: UPDATE Survey_Fields SET ... WHERE field_id = %s, on one row
UpdateFieldRowKeepOrder(row, field, order) ==
    [row EXCEPT !.field_label = field.field_label, !.field_type = field.field_type,
                !.field_options = stored_field_options(field),
                !.is_required = field.is_required]
update_field_row(row, field, order) ==
    [row EXCEPT !.field_label = field.field_label, !.field_type = field.field_type,
                !.field_options = stored_field_options(field),
                !.is_required = field.is_required, !.field_order = order]

\* lines 289-296: INSERT INTO Survey_Fields, the row it adds
insert_field_row(field_id, survey_id, field, order) ==
    [field_id |-> field_id, survey_id |-> survey_id, field_label |-> field.field_label,
     field_type |-> field.field_type, field_options |-> stored_field_options(field),
     is_required |-> field.is_required, field_order |-> order]

\* lines 271-296: the loop over enumerate(fields), from position i on, inside
\* the open transaction.  field['field_label'] raises KeyError for a dict
\* without the key; failed_at is the position at which that happened.
RECURSIVE upsert_fields(_, _, _, _, _)
UpsertFieldsMovesFields(rows, next_id, survey_id, fields, i) ==
    [rows |-> {IF f.field_id \in updated_field_ids(fields)
                 THEN [f EXCEPT !.survey_id = survey_id] ELSE f : f \in rows},
     next_id |-> next_id, failed_at |-> 0]
upsert_fields(rows, next_id, survey_id, fields, i) ==
    IF i > Len(fields)
      THEN [rows |-> rows, next_id |-> next_id, failed_at |-> 0]
    ELSE IF ~ fields[i].has_label
      THEN [rows |-> rows, next_id |-> next_id, failed_at |-> i]
    ELSE IF fields[i].has_id
      THEN upsert_fields({IF f.field_id = fields[i].field_id
                            THEN update_field_row(f, fields[i], i - 1) ELSE f : f \in rows},
                         next_id, survey_id, fields, i + 1)
      ELSE upsert_fields(rows \cup {insert_field_row(next_id, survey_id, fields[i], i - 1)},
                         next_id + 1, survey_id, fields, i + 1)

\* lines 301-305: conn.rollback() puts back what the transaction found
RollbackKeepsWork(before, after) == after
rollback(before, after) == before

\* the list names fields of the survey, each once, and every dict is complete
WellFormed(rows, survey_id, fields) ==
    /\ \A i \in 1..Len(fields) : fields[i].has_label
    /\ updated_field_ids(fields) \subseteq existing_field_ids(rows, survey_id)
    /\ \A i, j \in 1..Len(fields) :
          (fields[i].has_id /\ fields[j].has_id /\ fields[i].field_id = fields[j].field_id)
             => i = j

\* database.update_survey
update_survey(survey_id, survey_name, is_active, fields) ==
    LET surveys1 == {IF sv.survey_id = survey_id
                       THEN [sv EXCEPT !.survey_name = survey_name, !.is_active = is_active]
                       ELSE sv : sv \in Surveys}
        to_delete == fields_to_delete(Survey_Fields, survey_id, fields)
        rows1 == {f \in Survey_Fields : f.field_id \notin to_delete}
        done == upsert_fields(rows1, seq.Survey_Fields, survey_id, fields, 1)
        ok == done.failed_at = 0
        well == WellFormed(Survey_Fields, survey_id, fields)
    IN /\ \E sv \in Surveys : sv.survey_id = survey_id
       \* the edit form takes the ids it submits from rows it has read
       /\ updated_field_ids(fields) \subseteq 1..(seq.Survey_Fields - 1)
       /\ done.next_id <= MaxField + 1
       /\ Surveys' = IF ok THEN surveys1 ELSE rollback(Surveys, surveys1)
       /\ Survey_Fields' = IF ok THEN done.rows ELSE rollback(Survey_Fields, done.rows)
       /\ seq' = [seq EXCEPT !.Survey_Fields = done.next_id]
       /\ last' = IF ok
                    THEN [op |-> "update_survey", survey_id |-> survey_id,
                          survey_name |-> survey_name, is_active |-> is_active,
                          field_ids |-> updated_field_ids(fields),
                          fields |-> IF well THEN fields ELSE <<>>,
                          well_formed |-> well, failed_at |-> 0, result |-> "ok"]
                    ELSE [op |-> "update_survey", survey_id |-> survey_id,
                          failed_at |-> done.failed_at, result |-> "error"]
       /\ UNCHANGED <<orgTables, SurveyGovernorate, responseTables, accessTables, today, session>>

\* database.get_response_details: Response_Details JOIN Survey_Fields
get_response_details(response_id) ==
    {[detail_id |-> d.detail_id, field_id |-> d.field_id, field_label |-> f.field_label,
      field_type |-> f.field_type, field_options |-> f.field_options,
      answer_value |-> d.answer_value]
     : <<d, f>> \in {x \in Response_Details \X Survey_Fields :
                       x[1].response_id = response_id /\ x[1].field_id = x[2].field_id}}

\* what the edit form submits as the survey's name and activity
SurveyHeaders ==
    {[survey_name |-> "s1", is_active |-> TRUE], [survey_name |-> "s2", is_active |-> FALSE]}

NextSchema ==
    \E sv \in SurveyIds, h \in SurveyHeaders, fields \in FieldLists :
        update_survey(sv, h.survey_name, h.is_active, fields)

SpecSchema == Init /\ [][NextSchema]_vars

\* ------------------------------------------------- visibility and grants
\* database.get_governorate_admin_data: GovernorateAdmins JOIN Governorates,
\* the governorates fetchone can hand back for the user
get_governorate_admin_data(user_id) ==
    {ga.governorate_id : ga \in
        {ga \in GovernorateAdmins :
            /\ ga.user_id = user_id
            /\ \E g \in Governorates : g.governorate_id = ga.governorate_id}}

\* database.get_governorate_surveys: SurveyGovernorate JOIN Surveys
GetGovernorateSurveysActiveOnly(governorate_id) ==
    {sv.survey_id : sv \in
        {sv \in Surveys :
            /\ sv.is_active
            /\ \E sg \in SurveyGovernorate :
                  sg.governorate_id = governorate_id /\ sg.survey_id = sv.survey_id}}
get_governorate_surveys(governorate_id) ==
    {sv.survey_id : sv \in
        {sv \in Surveys :
            \E sg \in SurveyGovernorate :
               sg.governorate_id = governorate_id /\ sg.survey_id = sv.survey_id}}

\* database.get_governorate_employees: Users JOIN HealthAdministrations
get_governorate_employees(governorate_id) ==
    {u.user_id : u \in
        {u \in Users :
            /\ u.role = "employee"
            /\ \E ha \in HealthAdministrations :
                  ha.admin_id = u.assigned_region /\ ha.governorate_id = governorate_id}}

\* database.get_user_allowed_surveys: UserSurveys JOIN Surveys
get_user_allowed_surveys(user_id) ==
    {us.survey_id : us \in
        {us \in UserSurveys :
            us.user_id = user_id /\ \E sv \in Surveys : sv.survey_id = us.survey_id}}

\* database.update_user: UPDATE Users SET username, role, assigned_region
update_user(user_id, role, region_id) ==
    Users' = {IF u.user_id = user_id
                THEN [u EXCEPT !.role = role, !.assigned_region = region_id]
                ELSE u : u \in Users}

\* database.update_user_allowed_surveys: DELETE the user's rows, INSERT the new
update_user_allowed_surveys(user_id, survey_ids) ==
    UserSurveys' = {us \in UserSurveys : us.user_id # user_id}
                      \cup {[user_id |-> user_id, survey_id |-> sv] : sv \in survey_ids}

\* show_employee_dashboard after a login: the surveys offered for selection
show_employee_dashboard(user_id) ==
    IF \E u \in Users : /\ u.user_id = user_id
                        /\ u.assigned_region # NULL
                        /\ get_employee_region_info(u.assigned_region) # {}
      THEN get_allowed_surveys(user_id)
      ELSE {}

\* show_governorate_admin_dashboard and manage_governorate_surveys after a
\* login: for each governorate the binding can resolve to, the surveys listed
manage_governorate_surveys(user_id) ==
    IF \E u \in Users : u.user_id = user_id /\ u.role = "governorate_admin"
      THEN {get_governorate_surveys(g) : g \in get_governorate_admin_data(user_id)}
      ELSE {}

\* governorate_admin_views.edit_employee, the "save" button of the form
edit_employee(admin_id, user_id, selected_admin, selected_surveys) ==
    \E u \in Users, g \in get_governorate_admin_data(admin_id) :
      LET health_admins == {ha.admin_id : ha \in {ha \in HealthAdministrations :
                                                    ha.governorate_id = g}}
      IN /\ u.user_id = admin_id /\ u.role = "governorate_admin"
         /\ user_id \in get_governorate_employees(g)
         /\ IF health_admins = {} THEN selected_admin = NULL
                                  ELSE selected_admin \in health_admins
         /\ selected_surveys \subseteq get_governorate_surveys(g)
         /\ update_user(user_id, "employee", selected_admin)
         /\ update_user_allowed_surveys(user_id, selected_surveys)
         /\ last' = [op |-> "edit_employee", user_id |-> user_id, governorate_id |-> g]
         /\ UNCHANGED <<Governorates, HealthAdministrations, surveyTables, responseTables,
                        GovernorateAdmins, AuditLog, seq, today, session>>

\* governorate_admin_views.edit_governorate_survey, the "save" button
edit_governorate_survey(admin_id, survey_id, is_active) ==
    \E u \in Users, g \in get_governorate_admin_data(admin_id) :
      /\ u.user_id = admin_id /\ u.role = "governorate_admin"
      /\ survey_id \in get_governorate_surveys(g)
      /\ Surveys' = {IF sv.survey_id = survey_id THEN [sv EXCEPT !.is_active = is_active]
                                                 ELSE sv : sv \in Surveys}
      /\ last' = [op |-> "edit_governorate_survey", survey_id |-> survey_id,
                  governorate_id |-> g]
      /\ UNCHANGED <<orgTables, Survey_Fields, SurveyGovernorate, responseTables,
                     accessTables, seq, today, session>>

\* ------------------------------------------------ creating and deleting
\* lines 156-169 of save_survey: the loop over enumerate(fields), from position
\* i on.  Every field is inserted, 'field_id' is not looked at, and the options
\* are stored as json.dumps(...) whatever they are.
RECURSIVE insert_survey_fields(_, _, _, _, _)
insert_survey_fields(rows, next_id, survey_id, fields, i) ==
    IF i > Len(fields)
      THEN [rows |-> rows, next_id |-> next_id, failed_at |-> 0]
    ELSE IF ~ fields[i].has_label
      THEN [rows |-> rows, next_id |-> next_id, failed_at |-> i]
    ELSE insert_survey_fields(
            rows \cup {[field_id |-> next_id, survey_id |-> survey_id,
                        field_label |-> fields[i].field_label,
                        field_type |-> fields[i].field_type,
                        field_options |-> json_dumps(fields[i].field_options),
                        is_required |-> fields[i].is_required, field_order |-> i - 1]},
            next_id + 1, survey_id, fields, i + 1)

\* lines 172-174 of save_survey: one SurveyGovernorate row per governorate id
survey_links(survey_id, governorate_ids) ==
    {[survey_id |-> survey_id, governorate_id |-> g] : g \in governorate_ids}

\* database.save_survey.  The INSERT names no is_active, so the new row has the
\* column's default, which the sources do not tell: either value.
save_survey(survey_name, fields, governorate_ids) ==
    LET survey_id == seq.Surveys
        done == insert_survey_fields(Survey_Fields, seq.Survey_Fields, survey_id, fields, 1)
        ok == done.failed_at = 0
    IN /\ seq.Surveys <= MaxSurvey
       /\ done.next_id <= MaxField + 1
       /\ \E is_active \in BOOLEAN :
             LET inserted == Surveys \cup {[survey_id |-> survey_id,
                                            survey_name |-> survey_name,
                                            is_active |-> is_active]}
             IN Surveys' = IF ok THEN inserted ELSE rollback(Surveys, inserted)
       /\ Survey_Fields' = IF ok THEN done.rows ELSE rollback(Survey_Fields, done.rows)
       /\ SurveyGovernorate' =
             IF ok THEN SurveyGovernorate \cup survey_links(survey_id, governorate_ids)
                   ELSE SurveyGovernorate
       /\ seq' = [seq EXCEPT !.Surveys = @ + 1, !.Survey_Fields = done.next_id]
       /\ last' = [op |-> "save_survey", survey_id |-> survey_id,
                   survey_name |-> survey_name, governorate_ids |-> governorate_ids,
                   result |-> IF ok THEN "ok" ELSE "error"]
       /\ UNCHANGED <<orgTables, responseTables, accessTables, today, session>>

\* create_survey_form, the "save survey" button: a name was typed and the
\* governorates were picked among the existing ones
create_survey_form(survey_name, fields, selected_governorates) ==
    /\ survey_name # ""
    /\ selected_governorates \subseteq {g.governorate_id : g \in Governorates}
    /\ save_survey(survey_name, fields, selected_governorates)

\* the lists the create form and other callers hand to save_survey: no dict
\* carries a field id
CreateFieldLists == {l \in FieldLists : \A i \in 1..Len(l) : ~ l[i].has_id}

\* line 206 of delete_survey: DELETE FROM Response_Details WHERE response_id IN
\* (SELECT response_id FROM Responses WHERE survey_id = %s), the rows it leaves
DetailsDeletedAfterResponses(details, responses, survey_id) == details
delete_response_details(details, responses, survey_id) ==
    {d \in details :
        \A r \in responses : r.survey_id = survey_id => r.response_id # d.response_id}

\* database.delete_survey: the five DELETEs of lines 206-214 in their order,
\* committed together
delete_survey(survey_id) ==
    LET details1 == delete_response_details(Response_Details, Responses, survey_id)
        responses1 == {r \in Responses : r.survey_id # survey_id}
        fields1 == {f \in Survey_Fields : f.survey_id # survey_id}
        links1 == {sg \in SurveyGovernorate : sg.survey_id # survey_id}
        surveys1 == {sv \in Surveys : sv.survey_id # survey_id}
    IN /\ \E sv \in Surveys : sv.survey_id = survey_id
       /\ Response_Details' = details1
       /\ Responses' = responses1
       /\ Survey_Fields' = fields1
       /\ SurveyGovernorate' = links1
       /\ Surveys' = surveys1
       /\ last' = [op |-> "delete_survey", survey_id |-> survey_id, result |-> "ok"]
       /\ UNCHANGED <<orgTables, accessTables, seq, today, session>>

\* the administrator's survey tab: create, delete
NextCascade ==
    \/ \E sv \in SurveyIds : delete_survey(sv)
    \/ \E n \in SurveyNames, fields \in CreateFieldLists, gs \in SUBSET GovIds :
          create_survey_form(n, fields, gs)

SpecCascade == Init /\ [][NextCascade]_vars

\* the governorate administrator's tabs, the administrator's survey creation
\* and the moves of health administrations between governorates
NextAccess ==
    \/ \E a \in UserIds, u \in UserIds, h \in HAIds \cup {NULL}, svs \in SUBSET SurveyIds :
          edit_employee(a, u, h, svs)
    \/ \E a \in UserIds, sv \in SurveyIds, c \in BOOLEAN : edit_governorate_survey(a, sv, c)
    \/ \E h \in HAIds, g \in GovIds : edit_health_admin(h, "h1", g)
    \/ \E n \in SurveyNames, gs \in SUBSET GovIds : create_survey_form(n, <<>>, gs)

SpecAccess == Init /\ [][NextAccess]_vars

\* ------------------------------------------------ reading and editing responses
\* database.get_responses_for_survey: Responses JOIN Users JOIN
\* HealthAdministrations JOIN Governorates WHERE survey_id
get_responses_for_survey(survey_id) ==
    {r.response_id : r \in
        {r \in Responses :
            /\ r.survey_id = survey_id
            /\ \E u \in Users : u.user_id = r.user_id
            /\ \E ha \in HealthAdministrations :
                  /\ ha.admin_id = r.region_id
                  /\ \E g \in Governorates : g.governorate_id = ha.governorate_id}}

\* governorate_admin_views.view_survey_responses, lines 144-162: the same joins
\* WHERE survey_id AND ha.governorate_id
GovernorateViewAllRegions(survey_id, governorate_id) ==
    get_responses_for_survey(survey_id)
governorate_view_survey_responses(survey_id, governorate_id) ==
    {r.response_id : r \in
        {r \in Responses :
            /\ r.survey_id = survey_id
            /\ \E u \in Users : u.user_id = r.user_id
            /\ \E ha \in HealthAdministrations :
                  /\ ha.admin_id = r.region_id
                  /\ ha.governorate_id = governorate_id
                  /\ \E g \in Governorates : g.governorate_id = ha.governorate_id}}

\* employee_views.view_survey_responses, lines 237-247: Responses WHERE
\* survey_id AND user_id
employee_view_survey_responses(survey_id, user_id) ==
    {r.response_id : r \in
        {r \in Responses : r.survey_id = survey_id /\ r.user_id = user_id}}

\* database.get_response_info: Responses JOIN Surveys JOIN Users JOIN
\* HealthAdministrations JOIN Governorates WHERE response_id
get_response_info(response_id) ==
    {r \in Responses :
        /\ r.response_id = response_id
        /\ r.response_id \in get_responses_for_survey(r.survey_id)
        /\ \E sv \in Surveys : sv.survey_id = r.survey_id}

\* the values the widget of the edit form can hand back for a detail
\* (selectbox over the options for a dropdown, text_input otherwise)
EditValues(detail) ==
    IF detail.field_type = "dropdown"
      THEN IF detail.field_options.null \/ json_loads(detail.field_options) = <<>>
             THEN {PyNone}
             ELSE {json_loads(detail.field_options)[i] :
                      i \in 1..Len(json_loads(detail.field_options))}
      ELSE {"", "v", "w"}

\* database.update_response_detail, the row after UPDATE ... SET answer_value
update_response_detail(d, new_value) == [d EXCEPT !.answer_value = new_value]

\* the edit form under a selected response, its "save all" button: the values
\* that differ from the stored answers are written one by one.  No statement
\* of the handler, or of update_response_detail, writes AuditLog.
save_response_edits(response_id) ==
    LET details == get_response_details(response_id)
        ids == {d.detail_id : d \in details}
    IN /\ get_response_info(response_id) # {}
       /\ \E new_values \in [ids -> {"", "v", "w", "x", PyNone}] :
            LET updates == {d \in details : new_values[d.detail_id] # d.answer_value}
            IN /\ \A d \in details : new_values[d.detail_id] \in EditValues(d)
               /\ Response_Details' =
                     {IF \E d \in updates : d.detail_id = rd.detail_id
                        THEN update_response_detail(rd, new_values[rd.detail_id])
                        ELSE rd : rd \in Response_Details}
               /\ last' = [op |-> "save_response_edits", response_id |-> response_id,
                           updates |-> {d.detail_id : d \in updates}]
       /\ UNCHANGED <<orgTables, surveyTables, Responses, accessTables, seq, today,
                      session>>

\* admin_views.display_survey_data: the administrator edits a response of the
\* survey's listing
display_survey_data(survey_id, response_id) ==
    /\ get_survey_by_id(survey_id) # {}
    /\ response_id \in get_responses_for_survey(survey_id)
    /\ save_response_edits(response_id)

\* governorate_admin_views.view_survey_responses: the governorate's
\* administrator edits a response of its listing
view_survey_responses(admin_id, survey_id, response_id) ==
    \E u \in Users, g \in get_governorate_admin_data(admin_id) :
      /\ u.user_id = admin_id /\ u.role = "governorate_admin"
      /\ survey_id \in get_governorate_surveys(g)
      /\ response_id \in governorate_view_survey_responses(survey_id, g)
      /\ save_response_edits(response_id)

ResponseIds == 1..MaxResponse

\* the data tabs of the two administrators, next to the survey editor
NextEdit ==
    \/ \E sv \in SurveyIds, r \in ResponseIds : display_survey_data(sv, r)
    \/ \E a \in UserIds, sv \in SurveyIds, r \in ResponseIds :
          view_survey_responses(a, sv, r)
    \/ \E sv \in SurveyIds, h \in SurveyHeaders, fields \in FieldLists :
          update_survey(sv, h.survey_name, h.is_active, fields)

SpecEdit == Init /\ [][NextEdit]_vars

\* the three data views, while employees submit, the governorate's
\* administrator reassigns them and the administrator adds and moves health
\* administrations
NextScope ==
    \/ \E u \in UserIds, sv \in SurveyIds : process_survey_submission(u, sv, TRUE)
    \/ \E a \in UserIds, u \in UserIds, h \in HAIds \cup {NULL} : edit_employee(a, u, h, {})
    \/ \E n \in HANames, g \in GovIds : add_health_admin_form(n, g)
    \/ \E h \in HAIds, g \in GovIds : edit_health_admin(h, "h1", g)

SpecScope == Init /\ [][NextScope]_vars

\* the administrator's two survey forms: creating surveys and editing them
NextCreate ==
    \/ \E n \in SurveyNames, fields \in CreateFieldLists : create_survey_form(n, fields, {})
    \/ \E sv \in SurveyIds, h \in SurveyHeaders, fields \in FieldLists :
          update_survey(sv, h.survey_name, h.is_active, fields)

SpecCreate == Init /\ [][NextCreate]_vars

\* ------------------------------------------------------- user management
\* admin_views.edit_user_form, the "save changes" button.  The form is shown
\* only if get_user_by_username hands the user back; otherwise the handler
\* reports that the user does not exist and returns.
edit_user_form(user_id, new_role, selected_gov, selected_admin, selected_surveys) ==
    /\ \E u \in Users : u.user_id = user_id
    /\ IF get_user_by_username(Users, user_id) = {}
         THEN /\ last' = [op |-> "edit_user_form", user_id |-> user_id,
                          result |-> "not_found"]
              /\ UNCHANGED <<orgTables, accessTables>>
         ELSE \E user \in get_user_by_username(Users, user_id) :
              /\ \E g \in Governorates : g.governorate_id = selected_gov
              /\ \/ /\ selected_admin = NULL
                    /\ ~ \E ha \in HealthAdministrations : ha.governorate_id = selected_gov
                 \/ \E ha \in HealthAdministrations :
                       ha.governorate_id = selected_gov /\ ha.admin_id = selected_admin
              /\ selected_surveys \subseteq {sv.survey_id : sv \in Surveys}
              /\ update_user(user_id, new_role,
                             IF new_role = "employee" THEN selected_admin ELSE NULL)
              /\ GovernorateAdmins' =
                    IF new_role = "governorate_admin"
                      THEN add_governorate_admin(
                              {ga \in GovernorateAdmins : ga.user_id # user_id},
                              user_id, selected_gov)
                    ELSE IF user.role = "governorate_admin"
                      THEN {ga \in GovernorateAdmins : ga.user_id # user_id}
                      ELSE GovernorateAdmins
              /\ IF new_role # "admin"
                   THEN update_user_allowed_surveys(user_id, selected_surveys)
                   ELSE UNCHANGED UserSurveys
              /\ last' = [op |-> "edit_user_form", user_id |-> user_id, result |-> "ok"]
              /\ UNCHANGED <<Governorates, HealthAdministrations, AuditLog>>
    /\ UNCHANGED <<surveyTables, responseTables, seq, today, session>>

\* admin_views.delete_user: refused for a user with responses, otherwise the
\* user's grants, its governorate binding and its row are deleted
delete_user(user_id) ==
    /\ \E u \in Users : u.user_id = user_id
    /\ IF \E r \in Responses : r.user_id = user_id
         THEN /\ last' = [op |-> "delete_user", user_id |-> user_id,
                          result |-> "has_responses"]
              /\ UNCHANGED <<Users, UserSurveys, GovernorateAdmins>>
         ELSE /\ UserSurveys' = {us \in UserSurveys : us.user_id # user_id}
              /\ GovernorateAdmins' = {ga \in GovernorateAdmins : ga.user_id # user_id}
              /\ Users' = {u \in Users : u.user_id # user_id}
              /\ last' = [op |-> "delete_user", user_id |-> user_id, result |-> "ok"]
    /\ UNCHANGED <<Governorates, HealthAdministrations, surveyTables, responseTables,
                   AuditLog, seq, today, session>>

\* the user tab of the admin dashboard
NextUsers ==
    \/ \E r \in Roles, g \in GovIds, h \in HAIds \cup {NULL} : add_user_form(r, g, h)
    \/ \E u \in UserIds, r \in Roles, g \in GovIds, h \in HAIds \cup {NULL},
          svs \in SUBSET SurveyIds : edit_user_form(u, r, g, h, svs)
    \/ \E u \in UserIds : delete_user(u)

SpecUsers == Init /\ [][NextUsers]_vars

\* the forms that write an employee's health administration: the add and edit
\* forms of the administrator and the edit form of the governorate's
\* administrator
NextStaff ==
    \/ \E r \in Roles, g \in GovIds, h \in HAIds \cup {NULL} : add_user_form(r, g, h)
    \/ \E u \in UserIds, r \in Roles, g \in GovIds, h \in HAIds \cup {NULL},
          svs \in SUBSET SurveyIds : edit_user_form(u, r, g, h, svs)
    \/ \E a \in UserIds, u \in UserIds, h \in HAIds \cup {NULL}, svs \in SUBSET SurveyIds :
          edit_employee(a, u, h, svs)

SpecStaff == Init /\ [][NextStaff]_vars

\* ------------------------------------------------------- employee sessions
\* the login of an employee: st.session_state takes the user's id and the
\* health administration the user's row holds at that moment
login(p, user_id) ==
    \E u \in Users :
      /\ u.user_id = user_id
      /\ u.role = "employee"
      /\ session' = [session EXCEPT ![p] =
            [pc |-> "idle", user_id |-> user_id, region_id |-> u.assigned_region,
             survey_id |-> NULL, is_completed |-> FALSE]]
      /\ last' = [op |-> "login", session |-> p]
      /\ UNCHANGED <<orgTables, surveyTables, responseTables, accessTables, seq, today>>

\* a form button pressed in a session that logged in earlier
employee_session_request(p, survey_id, is_completed) ==
    /\ session[p].user_id # NULL
    /\ dashboard_request(session[p].user_id, session[p].region_id, survey_id, is_completed)

\* employees log in and submit while the governorate's administrator moves
\* them between the health administrations of the governorate
NextSession ==
    \/ \E p \in Sessions, u \in UserIds : login(p, u)
    \/ \E p \in Sessions, sv \in SurveyIds, c \in BOOLEAN :
          employee_session_request(p, sv, c)
    \/ \E a \in UserIds, u \in UserIds, h \in HAIds \cup {NULL} : edit_employee(a, u, h, {})
    \/ \E g \in GovIds : add_health_admin_form("h2", g)

SpecSession == Init /\ [][NextSession]_vars

\* ---- delete_health_admin as the two requests it sends to the server
\* lines 606-610: SELECT user_id FROM Users WHERE assigned_region = %s, in a
\* transaction of its own; the session keeps the id it is about to delete
delete_health_admin_check(p, admin_id) ==
    /\ session[p].pc = "idle"
    /\ \E ha \in HealthAdministrations : ha.admin_id = admin_id
    /\ session' = [session EXCEPT ![p] =
          [pc |-> IF has_users(admin_id) THEN "idle" ELSE "delete",
           user_id |-> NULL, region_id |-> admin_id, survey_id |-> NULL,
           is_completed |-> FALSE]]
    /\ last' = [op |-> "delete_health_admin_check", session |-> p,
                result |-> IF has_users(admin_id) THEN "has_children" ELSE "ok"]
    /\ UNCHANGED <<orgTables, surveyTables, responseTables, accessTables, seq, today>>

\* lines 612-613: DELETE FROM HealthAdministrations WHERE admin_id = %s
delete_health_admin_delete(p) ==
    /\ session[p].pc = "delete"
    /\ HealthAdministrations' =
          {ha \in HealthAdministrations : ha.admin_id # session[p].region_id}
    /\ session' = [session EXCEPT ![p] = IdleSession]
    /\ last' = [op |-> "delete_health_admin_delete", session |-> p]
    /\ UNCHANGED <<Governorates, Users, surveyTables, responseTables, accessTables, seq,
                   today>>

\* administrators delete health administrations while users are added and
\* employees are reassigned
NextDeleteRace ==
    \/ \E p \in Sessions, h \in HAIds : delete_health_admin_check(p, h)
    \/ \E p \in Sessions : delete_health_admin_delete(p)
    \/ \E r \in Roles, g \in GovIds, h \in HAIds \cup {NULL} : add_user_form(r, g, h)
    \/ \E a \in UserIds, u \in UserIds, h \in HAIds \cup {NULL} : edit_employee(a, u, h, {})
    \/ \E g \in GovIds : add_health_admin_form("h2", g)

SpecDeleteRace == Init /\ [][NextDeleteRace]_vars

\* the governorate's administrator grants surveys while the administrator
\* creates and deletes them
NextGrants ==
    \/ \E a \in UserIds, u \in UserIds, h \in HAIds \cup {NULL}, svs \in SUBSET SurveyIds :
          edit_employee(a, u, h, svs)
    \/ \E sv \in SurveyIds : delete_survey(sv)
    \/ \E n \in SurveyNames, gs \in SUBSET GovIds : create_survey_form(n, <<>>, gs)

SpecGrants == Init /\ [][NextGrants]_vars

\* ------------------------------------------------------- the survey forms
\* the dicts the widgets of a new field leave in st.session_state (both
\* forms): the options text area is only rendered, and field['field_options']
\* only rewritten, in a run in which the type is 'dropdown'; it is stripped of
\* blank lines and may be empty, and a dict whose type was switched back from
\* 'dropdown' keeps the options typed before
FieldTypes == {"text", "number", "dropdown"}

NewFieldDicts ==
    {[has_id |-> FALSE, field_id |-> NULL, has_label |-> TRUE, field_label |-> "N",
      field_type |-> t, field_options |-> o, is_required |-> FALSE]
        : t \in FieldTypes, o \in {<<>>, <<"x">>}}

NewFieldLists == UNION {[1..n -> NewFieldDicts] : n \in 0..MaxLen}

\* edit_survey lines 506-534: what the widgets of an existing field can hand
\* back.  new_options is None unless new_type is 'dropdown'; None and the
\* empty text both give 'field_options': None, which update_survey stores as
\* NULL like the empty list (the model writes <<>> for it).
EditedTypes ==
    {[new_type |-> "text", field_options |-> <<>>],
     [new_type |-> "number", field_options |-> <<>>],
     [new_type |-> "dropdown", field_options |-> <<>>],
     [new_type |-> "dropdown", field_options |-> <<"x">>]}

\* lines 530-536: updated_fields.append({...})
updated_field(field, edit) ==
    [has_id |-> TRUE, field_id |-> field.field_id, has_label |-> TRUE,
     field_label |-> field.field_label, field_type |-> edit.new_type,
     field_options |-> edit.field_options, is_required |-> field.is_required]

\* admin_views.edit_survey, the "save changes" button: the current fields as
\* get_survey_fields listed them, each with its edited type and options, then
\* the new fields of the session
edit_survey(survey_id, new_name, is_active, new_survey_fields) ==
    /\ get_survey_by_id(survey_id) # {}
    /\ \E fields \in get_survey_fields(survey_id) :
         /\ Len(fields) + Len(new_survey_fields) <= MaxLen
         /\ \E edits \in [1..Len(fields) -> EditedTypes] :
              LET updated_fields == [i \in 1..Len(fields) |-> updated_field(fields[i], edits[i])]
                  all_fields == updated_fields \o new_survey_fields
              IN update_survey(survey_id, new_name, is_active, all_fields)

\* the administrator's two survey forms with the values their widgets give
NextForms ==
    \/ \E n \in SurveyNames, fields \in NewFieldLists : create_survey_form(n, fields, {})
    \/ \E sv \in SurveyIds, h \in SurveyHeaders, fields \in NewFieldLists :
          edit_survey(sv, h.survey_name, h.is_active, fields)

SpecForms == Init /\ [][NextForms]_vars

\* employees fill in surveys whose fields the administrator retypes
NextRequired ==
    \/ \E u \in UserIds, sv \in SurveyIds, c \in BOOLEAN : process_survey_submission(u, sv, c)
    \/ \E sv \in SurveyIds, h \in SurveyHeaders : edit_survey(sv, h.survey_name, h.is_active, <<>>)

SpecRequired == Init /\ [][NextRequired]_vars

\* the target lists that name fields by id only
KeptFieldLists == {l \in FieldLists : \A i \in 1..Len(l) : l[i].has_id}

\* employees submit while the administrator creates surveys and edits their
\* fields
NextDetails ==
    \/ \E u \in UserIds, sv \in SurveyIds : process_survey_submission(u, sv, TRUE)
    \/ create_survey_form("s2", <<>>, {})
    \/ \E sv \in SurveyIds, fields \in KeptFieldLists :
          update_survey(sv, "s1", TRUE, fields)

SpecDetails == Init /\ [][NextDetails]_vars

\* ----------------------------------------------------- claims C1 .. C2
\* C1: with the submissions run one at a time, no user has two completed
\* responses to one survey on one calendar day.
C1_OneCompletedPerDay ==
    \A r1 \in Responses, r2 \in Responses :
        (/\ r1.is_completed /\ r2.is_completed
         /\ r1.user_id = r2.user_id /\ r1.survey_id = r2.survey_id /\ r1.day = r2.day)
            => r1.response_id = r2.response_id

\* a second completed submission of the day was turned away
C1_Witness ==
    /\ last.op = "process_survey_submission"
    /\ last.is_completed
    /\ last.result = "completed_today"
    /\ \E r \in Responses :
          /\ r.user_id = last.user_id /\ r.survey_id = last.survey_id
          /\ r.is_completed /\ r.day = today /\ r.response_id >= 2

\* C2: of two completed submissions of one user for one survey on one day whose
\* requests interleave, only one inserts its response, and the day has at most
\* one completed response of that user for that survey.
C2_OneOfTwoConcurrentSucceeds ==
    /\ \A p \in Sessions, q \in Sessions :
          (/\ p # q
           /\ session[p].is_completed /\ session[q].is_completed
           /\ session[p].user_id = session[q].user_id
           /\ session[p].survey_id = session[q].survey_id
           /\ session[p].pc = "inserted")
              => session[q].pc # "inserted"
    /\ \A r1 \in Responses, r2 \in Responses :
          (/\ r1.is_completed /\ r2.is_completed /\ r1.day = today /\ r2.day = today
           /\ r1.user_id = r2.user_id /\ r1.survey_id = r2.survey_id)
              => r1.response_id = r2.response_id

\* ----------------------------------------------------- claims C11 .. C13
\* the governorate-link set of a survey
governorate_links(survey_id) ==
    {sg.governorate_id : sg \in {sg \in SurveyGovernorate : sg.survey_id = survey_id}}

\* C11: the surveys listed to an employee are exactly the active surveys that
\* are linked to the governorate of the employee's health administration or
\* granted to the employee.
C11_EmployeeVisibility ==
    \A u \in Users :
        u.role = "employee" =>
            show_employee_dashboard(u.user_id) =
               {sv.survey_id : sv \in
                   {sv \in Surveys :
                      /\ sv.is_active
                      /\ \/ \E ha \in HealthAdministrations :
                               /\ ha.admin_id = u.assigned_region
                               /\ ha.governorate_id \in governorate_links(sv.survey_id)
                         \/ \E us \in UserSurveys :
                               us.user_id = u.user_id /\ us.survey_id = sv.survey_id}}

\* C12: a governorate administrator bound to governorate g is listed exactly
\* the surveys whose link set contains g, the inactive ones included.
C12_GovernorateAdminSurveys ==
    \A u \in Users, ga \in GovernorateAdmins :
        (/\ u.role = "governorate_admin" /\ ga.user_id = u.user_id
         /\ \E g \in Governorates : g.governorate_id = ga.governorate_id
         /\ \A other \in GovernorateAdmins : other.user_id = u.user_id => other = ga)
           => manage_governorate_surveys(u.user_id) =
                 {{sv.survey_id : sv \in
                      {sv \in Surveys : ga.governorate_id \in governorate_links(sv.survey_id)}}}

\* the administrator of governorate 1 is listed an inactive survey, and a
\* survey that is not linked to governorate 1 exists
C12_Witness ==
    /\ \E listing \in manage_governorate_surveys(4) :
          \E sv \in Surveys : sv.survey_id \in listing /\ ~ sv.is_active
    /\ \E sv \in Surveys : 1 \notin governorate_links(sv.survey_id)

\* C13: after a survey has been saved with the governorate list G, the link
\* set of the survey saved (the survey of that name) is exactly G, and with an
\* empty G no employee without a grant for it is listed that survey.
C13_SaveReplacesLinks ==
    (last.op = "save_survey" /\ last.result = "ok") =>
        \A sv \in Surveys :
            sv.survey_name = last.survey_name =>
               /\ governorate_links(sv.survey_id) = last.governorate_ids
               /\ last.governorate_ids = {} =>
                     \A u \in Users :
                        (u.role = "employee" /\ sv.survey_id \notin
                            {us.survey_id : us \in {us \in UserSurveys :
                                                      us.user_id = u.user_id}})
                           => sv.survey_id \notin show_employee_dashboard(u.user_id)

\* ----------------------------------------------------- claims C14
\* C14: after delete_survey(s) has succeeded, the survey row of s, its fields,
\* its governorate links, its responses and the details of its responses are
\* gone, and the rows of every other survey are as they were.
C14_DeleteSurveyCascade ==
    [][last'.op = "delete_survey" /\ last'.result = "ok" =>
         LET s == last'.survey_id
             of_s == {r.response_id : r \in {r \in Responses : r.survey_id = s}}
         IN /\ Surveys' = {sv \in Surveys : sv.survey_id # s}
            /\ Survey_Fields' = {f \in Survey_Fields : f.survey_id # s}
            /\ SurveyGovernorate' = {sg \in SurveyGovernorate : sg.survey_id # s}
            /\ Responses' = {r \in Responses : r.survey_id # s}
            /\ Response_Details' = {d \in Response_Details : d.response_id \notin of_s}
            /\ \A d \in Response_Details' :
                  \E r \in Responses' : r.response_id = d.response_id]_vars

\* survey 1 was deleted with its answered response while another survey with a
\* field and a response had been created: the details are gone, the other
\* survey's rows are there
C14_Witness ==
    /\ last.op = "delete_survey" /\ last.survey_id = 1
    /\ Response_Details = {}
    /\ \E f \in Survey_Fields : f.survey_id = 2

\* ----------------------------------------------------- claims C15
\* C15: a submission flagged completed in which a required field of the
\* survey has no answer is rejected with the labels of those fields, and the
\* call creates no response row and no response detail row.
C15_MissingRequiredRejected ==
    [][(/\ last'.op = "process_survey_submission"
        /\ last'.is_completed
        /\ last'.result # "completed_today") =>
         LET unanswered == {f \in Survey_Fields :
                               /\ f.survey_id = last'.survey_id
                               /\ f.is_required
                               /\ last'.answers[f.field_id] \in {"", PyNone}}
         IN unanswered # {} =>
               /\ last'.result = "missing_required"
               /\ {f.field_label : f \in unanswered}
                     \subseteq {last'.missing[i] : i \in 1..Len(last'.missing)}
               /\ Responses' = Responses
               /\ Response_Details' = Response_Details]_vars

\* a completed submission left the required field A empty and was rejected
C15_Witness ==
    /\ last.op = "process_survey_submission" /\ last.is_completed
    /\ last.result = "missing_required" /\ last.missing = <<"A">>
    /\ last.answers[1] = ""

\* ----------------------------------------------------- claims C16 .. C19
\* C16: every change of a response detail's value through the edit form
\* appends exactly one audit log entry for that detail, with the value before
\* the call as its old value and the value after the call as its new value.
C16_EditAppendsAuditEntry ==
    [][last'.op = "save_response_edits" =>
         \A d \in Response_Details, d2 \in Response_Details' :
            (d2.detail_id = d.detail_id /\ d2.answer_value # d.answer_value) =>
                Cardinality({e \in AuditLog' \ AuditLog :
                                /\ e.record_id = d.detail_id
                                /\ e.old_value = d.answer_value
                                /\ e.new_value = d2.answer_value}) = 1]_vars

\* C17: a submission is all or nothing: a call either leaves Responses and
\* Response_Details as they were, or adds the response row together with a
\* detail row for every field of the form that has an answer.
C17_SubmissionAllOrNothing ==
    [][last'.op = "process_survey_submission" =>
         \/ Responses' = Responses /\ Response_Details' = Response_Details
         \/ \E r \in Responses' \ Responses :
               \A field_id \in DOMAIN last'.answers :
                  last'.answers[field_id] # PyNone =>
                     \E d \in Response_Details' :
                        /\ d.response_id = r.response_id
                        /\ d.field_id = field_id
                        /\ d.answer_value = last'.answers[field_id]]_vars

\* C19: a response that is completed stays completed for as long as it exists.
C19_CompletedIsOneWay ==
    [][\A r \in Responses, r2 \in Responses' :
          (r.response_id = r2.response_id /\ r.is_completed) => r2.is_completed]_vars

\* a user with a completed response to a survey has saved a draft for the same
\* survey afterwards
C19_Witness ==
    \E r \in Responses, r2 \in Responses :
        /\ r.user_id = r2.user_id /\ r.survey_id = r2.survey_id
        /\ r.is_completed /\ ~ r2.is_completed
        /\ r.response_id < r2.response_id

C20_FieldOrderUnique ==
    \A f1 \in Survey_Fields, f2 \in Survey_Fields :
        (f1.survey_id = f2.survey_id /\ f1.field_order = f2.field_order)
            => f1.field_id = f2.field_id

\* ----------------------------------------------------- claims C3 .. C6
\* the options a stored field_options text stands for (render_field line 163)
stored_options_list(options) == IF options.null THEN <<>> ELSE json_loads(options)

\* C3: after update_survey has succeeded on a list that names fields of the
\* survey, each at most once, listing the survey's fields returns exactly the
\* entries of the list in the submitted order: the entry at position i has
\* order index i (counted from 0) and the submitted label, type, options and
\* required flag, and an entry that carried an id is the row with that id.
C3_ReconcileListsTarget ==
    (last.op = "update_survey" /\ last.result = "ok" /\ last.well_formed) =>
        \A l \in get_survey_fields(last.survey_id) :
            /\ Len(l) = Len(last.fields)
            /\ \A i \in 1..Len(l) :
                  /\ l[i].field_order = i - 1
                  /\ l[i].field_label = last.fields[i].field_label
                  /\ l[i].field_type = last.fields[i].field_type
                  /\ stored_options_list(l[i].field_options) = last.fields[i].field_options
                  /\ l[i].is_required = last.fields[i].is_required
                  /\ last.fields[i].has_id => l[i].field_id = last.fields[i].field_id

\* field B moved to the front, field A dropped, a new field appended
C3_Witness ==
    /\ last.op = "update_survey" /\ last.result = "ok" /\ last.well_formed
    /\ Len(last.fields) = 2
    /\ last.fields[1].has_id /\ last.fields[1].field_id = 2
    /\ ~ last.fields[2].has_id
    /\ \E f \in Survey_Fields : f.field_id = 2 /\ f.field_order = 0

\* C4: update_survey leaves every response detail of a field the list retains
\* in place: the detail keeps its id, response, field and answer, and
\* get_response_details still returns it with that field.
C4_RetainedDetailsKept ==
    [][last'.op = "update_survey" /\ last'.result = "ok" =>
         \A d \in Response_Details :
            (d.field_id \in last'.field_ids
               /\ d.field_id \in existing_field_ids(Survey_Fields, last'.survey_id)) =>
                 /\ d \in Response_Details'
                 /\ \E r \in get_response_details(d.response_id)' :
                       /\ r.detail_id = d.detail_id
                       /\ r.field_id = d.field_id
                       /\ r.answer_value = d.answer_value]_vars

\* the answered field A was kept, and became a dropdown at another position
C4_Witness ==
    /\ last.op = "update_survey" /\ last.result = "ok" /\ 1 \in last.field_ids
    /\ \E r \in get_response_details(1) :
          r.field_id = 1 /\ r.field_type = "dropdown" /\ r.answer_value = "v"

\* C5: update_survey is all or nothing.  A call that fails leaves the survey's
\* row and every field row as they were; a call that succeeds has updated the
\* survey's name and activity, removed every field of the survey the list does
\* not name, kept every field of the survey the list names, and added one row
\* of the survey for each id it drew.
C5_ReconcileAtomic ==
    [][last'.op = "update_survey" =>
         IF last'.result = "error"
           THEN Surveys' = Surveys /\ Survey_Fields' = Survey_Fields
           ELSE /\ \A sv \in Surveys' :
                      sv.survey_id = last'.survey_id =>
                         /\ sv.survey_name = last'.survey_name
                         /\ sv.is_active = last'.is_active
                /\ \A k \in existing_field_ids(Survey_Fields, last'.survey_id) :
                      k \in existing_field_ids(Survey_Fields', last'.survey_id)
                         <=> k \in last'.field_ids
                /\ \A k \in seq.Survey_Fields .. (seq'.Survey_Fields - 1) :
                      k \in existing_field_ids(Survey_Fields', last'.survey_id)]_vars

\* a call failed at its second or a later entry, after the statements for the
\* survey row, the removals and the first entry had run
C5_Witness ==
    last.op = "update_survey" /\ last.result = "error" /\ last.failed_at > 1

\* C6: a call of update_survey that drops a field some response detail refers
\* to fails, so a call that succeeds has dropped no such field (and has left
\* the details alone); the fields it has dropped are removed.
C6_DropReferencedFieldFails ==
    [][last'.op = "update_survey" /\ last'.result = "ok" =>
         LET dropped == {f \in Survey_Fields :
                            f.survey_id = last'.survey_id
                              /\ f.field_id \notin last'.field_ids}
         IN /\ \A f \in dropped : \A d \in Response_Details : d.field_id # f.field_id
            /\ Response_Details' = Response_Details
            /\ \A f \in dropped : f \notin Survey_Fields']_vars

\* ----------------------------------------------------- claims C21 .. C30
\* C21: after any sequence of survey creations and edits through the admin
\* forms, every stored field of type dropdown has a non-empty options list and
\* every field of another type has no options.
C21_OptionsMatchType ==
    \A f \in Survey_Fields :
        (f.field_type = "dropdown") = (stored_options_list(f.field_options) # <<>>)

\* C28: update_survey(s, ...) changes only survey s and the fields of s: the
\* rows of every other survey and the fields of every other survey are after
\* the call what they were before it.
C28_ReconcileFrame ==
    [][last'.op = "update_survey" =>
         /\ {sv \in Surveys' : sv.survey_id # last'.survey_id}
               = {sv \in Surveys : sv.survey_id # last'.survey_id}
         /\ {f \in Survey_Fields' : f.survey_id # last'.survey_id}
               = {f \in Survey_Fields : f.survey_id # last'.survey_id}]_vars

\* C22: in every state reachable through the add, edit and delete forms of
\* the user tab, a user has the role governorate_admin if and only if exactly
\* one GovernorateAdmins row binds it to an existing governorate.
C22_GovernorateAdminBound ==
    \A u \in Users :
        (u.role = "governorate_admin") =
           (Cardinality({ga \in GovernorateAdmins :
                            /\ ga.user_id = u.user_id
                            /\ \E g \in Governorates :
                                  g.governorate_id = ga.governorate_id}) = 1)

C24_ResponseRegionIsPersisted ==
    [][last'.op = "process_survey_submission" =>
         \A r \in Responses' \ Responses :
            \E u \in Users :
               u.user_id = r.user_id /\ u.assigned_region = r.region_id]_vars

\* C25: the required-field check names a required field as missing if and
\* only if the submitted batch holds no answer or the empty text for it; a
\* completed submission whose required fields all carry a value, the number 0
\* included, is not rejected for missing required fields.
C25_MissingIffNoAnswer ==
    [][(/\ last'.op = "process_survey_submission"
        /\ last'.result # "completed_today") =>
         LET no_answer == {f \in Survey_Fields :
                              /\ f.survey_id = last'.survey_id
                              /\ f.is_required
                              /\ last'.answers[f.field_id] \in {"", PyNone}}
         IN /\ {last'.missing[i] : i \in 1..Len(last'.missing)}
                  = {f.field_label : f \in no_answer}
            /\ (last'.is_completed /\ no_answer = {})
                  => last'.result # "missing_required"]_vars

\* C26: in every reachable state, a response detail's field and the detail's
\* response, where both rows are there, are of the same survey.
C26_DetailFieldOfResponseSurvey ==
    \A d \in Response_Details, f \in Survey_Fields, r \in Responses :
        (d.field_id = f.field_id /\ d.response_id = r.response_id)
            => f.survey_id = r.survey_id

\* a call of update_survey on another survey carried the id of the field a
\* stored detail answers, and the detail, its field and its response are there
C26_Witness ==
    /\ last.op = "update_survey" /\ last.result = "ok"
    /\ \E d \in Response_Details, f \in Survey_Fields, r \in Responses :
          /\ d.field_id = f.field_id /\ d.response_id = r.response_id
          /\ f.field_id \in last.field_ids
          /\ last.survey_id # r.survey_id

\* C30: in every reachable state every response detail references an existing
\* survey field and an existing response.
C30_DetailsReferenceExistingRows ==
    \A d \in Response_Details :
        /\ \E f \in Survey_Fields : f.field_id = d.field_id
        /\ \E r \in Responses : r.response_id = d.response_id

\* C27: in every reachable state, with the check and the delete of
\* delete_health_admin interleaved with add_user and update_user, every user's
\* health administration reference is null or names an existing health
\* administration.
C27_UserRegionExists ==
    \A u \in Users :
        \/ u.assigned_region = NULL
        \/ \E ha \in HealthAdministrations : ha.admin_id = u.assigned_region

\* C29: in every reachable state every UserSurveys row references an existing
\* survey; after a successful delete_survey(s) no grant for s remains.
C29_GrantsReferenceSurveys ==
    \A us \in UserSurveys : \E sv \in Surveys : sv.survey_id = us.survey_id

\* ----------------------------------------------------- claims C7 .. C10
GovernorateNamesUnique ==
    \A g1 \in Governorates, g2 \in Governorates :
        g1.governorate_name = g2.governorate_name => g1.governorate_id = g2.governorate_id

HealthAdminNamesUnique ==
    \A h1 \in HealthAdministrations, h2 \in HealthAdministrations :
        (h1.admin_name = h2.admin_name /\ h1.governorate_id = h2.governorate_id)
            => h1.admin_id = h2.admin_id

\* C7: delete_governorate of a governorate that some health administration
\* references returns the has-children error and leaves Governorates and
\* HealthAdministrations as they were; with no such reference it removes
\* exactly that governorate.
C7_DeleteGovernorate ==
    [][last'.op = "delete_governorate" =>
         IF \E ha \in HealthAdministrations : ha.governorate_id = last'.id
           THEN /\ last'.result = "has_children"
                /\ Governorates' = Governorates
                /\ HealthAdministrations' = HealthAdministrations
           ELSE /\ last'.result = "ok"
                /\ Governorates' = {g \in Governorates : g.governorate_id # last'.id}
                /\ Governorates' # Governorates
                /\ HealthAdministrations' = HealthAdministrations]_vars

C7_Witness ==
    /\ last.op = "delete_governorate"
    /\ last.result = "has_children"
    /\ \E ha \in HealthAdministrations : ha.governorate_id = last.id
    /\ Cardinality(Governorates) > 1

\* C8: delete_health_admin of a health administration that some user references
\* returns the has-children error and changes no table; otherwise it removes
\* exactly that health administration.
C8_DeleteHealthAdmin ==
    [][last'.op = "delete_health_admin" =>
         IF \E u \in Users : u.assigned_region = last'.id
           THEN /\ last'.result = "has_children"
                /\ HealthAdministrations' = HealthAdministrations
                /\ Users' = Users /\ Governorates' = Governorates
           ELSE /\ last'.result = "ok"
                /\ HealthAdministrations' =
                      {ha \in HealthAdministrations : ha.admin_id # last'.id}
                /\ HealthAdministrations' # HealthAdministrations
                /\ Users' = Users /\ Governorates' = Governorates]_vars

C8_Witness ==
    /\ last.op = "delete_health_admin"
    /\ last.result = "has_children"
    /\ \E u \in Users : u.assigned_region = last.id
    /\ Cardinality(HealthAdministrations) > 1

\* C9: governorate names stay unique under the add and edit forms; an add with
\* a name in use, or a rename to the name of another governorate, is answered
\* with the conflict error (the empty name, on add, with the missing-name
\* warning) and leaves Governorates unchanged.
C9_GovernorateNameUnique ==
    /\ [] GovernorateNamesUnique
    /\ [][/\ (/\ last'.op = "add_governorate"
              /\ \E g \in Governorates : g.governorate_name = last'.name)
             => (/\ last'.result = IF last'.name = "" THEN "empty" ELSE "conflict"
                 /\ Governorates' = Governorates)
          /\ (/\ last'.op = "update_governorate"
              /\ \E g \in Governorates :
                    g.governorate_name = last'.name /\ g.governorate_id # last'.id)
             => (last'.result = "conflict" /\ Governorates' = Governorates)]_vars

C9_Witness ==
    /\ last.op = "update_governorate"
    /\ last.result = "conflict"
    /\ \E g \in Governorates : g.governorate_name = last.name /\ g.governorate_id # last.id
    /\ \E g \in Governorates : g.governorate_id = last.id

\* C10: within one governorate health administration names stay unique under
\* the add form and the edit form (renames and moves to another governorate);
\* a conflicting add or update is answered with the conflict error (the empty
\* name, on add, with the missing-name warning) and leaves HealthAdministrations
\* unchanged.
C10_HealthAdminNameUnique ==
    /\ [] HealthAdminNamesUnique
    /\ [][/\ (/\ last'.op = "add_health_admin"
              /\ existing_health_admin(last'.name, last'.gov))
             => (/\ last'.result = IF last'.name = "" THEN "empty" ELSE "conflict"
                 /\ HealthAdministrations' = HealthAdministrations)
          /\ (/\ last'.op = "update_health_admin"
              /\ \E ha \in HealthAdministrations :
                    /\ ha.admin_name = last'.name
                    /\ ha.governorate_id = last'.gov
                    /\ ha.admin_id # last'.id)
             => (last'.result = "conflict"
                 /\ HealthAdministrations' = HealthAdministrations)]_vars

\* a move into a governorate that already has the name was refused
C10_Witness ==
    /\ last.op = "update_health_admin"
    /\ last.result = "conflict"
    /\ \E ha \in HealthAdministrations :
          ha.admin_id = last.id /\ ha.governorate_id # last.gov
    /\ \E ha \in HealthAdministrations :
          ha.admin_name = last.name /\ ha.governorate_id = last.gov /\ ha.admin_id # last.id

====
